---- MODULE Spec2Model ----
(***************************************************************************)
(* Model of quantum_teleportation_simulator.py: the module-level session   *)
(* (state, psi, alice_result) and the four button callbacks initialize,    *)
(* alice_ops, measure and bob_correction, with the linear algebra they     *)
(* call (normalize, kron, the gate constants, measure_two_qubits).         *)
(*                                                                         *)
(* Arithmetic is exact.  An array is a record [r, c, e, n]: r rows, c      *)
(* columns, e the row-major sequence of Gaussian integers <<re, im>>, and  *)
(* n a positive integer; its value is e / sqrt(n).  Every array operator   *)
(* returns the reduced form (no k > 1 divides all of e with k*k dividing   *)
(* n), which is unique for a value, so equality of records is equality of  *)
(* values.  Floating-point rounding, overflow and inf/nan literals are not *)
(* modelled; flatten() and reshape() change only a shape and are omitted.  *)
(***************************************************************************)
EXTENDS Integers, Sequences, FiniteSets, TLC

\* state, psi, alice_result: the program's globals.  The others record the
\* run: last is the last call and what it produced, done the phases that
\* took effect since the last successful initialize, phase the stage of the
\* protocol reached, measures the number of measures completed since the
\* last call of initialize or alice_ops, steps the number of calls.
VARIABLES state, psi, alice_result, last, done, phase, measures, steps

vars == <<state, psi, alice_result, last, done, phase, measures, steps>>

\* Number of button presses explored.
MaxSteps == 5

\* Python's None, as a value of the type of the variable that holds it:
\* the array variables (state, psi) and the pair alice_result.
None == [r |-> 0, c |-> 0, e |-> <<>>, n |-> 0]

NoneResult == <<>>

-----------------------------------------------------------------------------
(* Complex scalars (Gaussian integers) *)

CAdd(x, y) == <<x[1] + y[1], x[2] + y[2]>>

CMul(x, y) == <<x[1] * y[1] - x[2] * y[2], x[1] * y[2] + x[2] * y[1]>>

\* |x|^2
CAbs2(x) == x[1] * x[1] + x[2] * x[2]

C0 == <<0, 0>>

C1r == <<1, 0>>

IAbs(k) == IF k < 0 THEN -k ELSE k

RECURSIVE SumRange(_, _, _)
SumRange(e, lo, hi) ==
    IF lo > hi THEN 0
    ELSE IF lo = hi THEN CAbs2(e[lo])
    ELSE LET mid == (lo + hi) \div 2
         IN  SumRange(e, lo, mid) + SumRange(e, mid + 1, hi)

\* The sum of |x|^2 over the entries of e
SumAbs2(e) == SumRange(e, 1, Len(e))

\* The integer square root of a perfect square.
ISqrt(m) == CHOOSE t \in 0..m : t * t = m

\* The largest absolute value of a real or imaginary part in e.
MaxPart(e) ==
    LET parts == {IAbs(e[i][1]) : i \in 1..Len(e)} \cup {IAbs(e[i][2]) : i \in 1..Len(e)}
    IN  CHOOSE m \in parts : \A q \in parts : q <= m

\* The unique representation of the value A.e / sqrt(A.n): divided by the
\* largest k that divides every part of e and whose square divides n.
Reduce(A) ==
    LET m == MaxPart(A.e)
        D == {d \in 1..m : /\ A.n % (d * d) = 0
                           /\ \A i \in 1..Len(A.e) :
                                 A.e[i][1] % d = 0 /\ A.e[i][2] % d = 0}
    IN  IF m = 0 THEN [A EXCEPT !.n = 1]
        ELSE LET k == CHOOSE d \in D : \A d2 \in D : d2 <= d
             IN  [A EXCEPT !.e = [i \in 1..Len(A.e) |->
                                     <<A.e[i][1] \div k, A.e[i][2] \div k>>],
                           !.n = A.n \div (k * k)]

\* Entry (i, j), zero-based as in numpy.
At(A, i, j) == A.e[i * A.c + j + 1]

\* numpy: s * A for a complex scalar s = (re + im j) / den
Scale(s, A) ==
    Reduce([A EXCEPT !.e = [i \in 1..Len(A.e) |-> CMul(<<s.re, s.im>>, A.e[i])],
                     !.n = A.n * s.den * s.den])

\* numpy: A + B (both scales are rational wherever the program adds)
Add(A, B) ==
    LET ta == ISqrt(A.n)
        tb == ISqrt(B.n)
    IN  Reduce([A EXCEPT !.e = [i \in 1..Len(A.e) |->
                                   CAdd(CMul(<<tb, 0>>, A.e[i]),
                                        CMul(<<ta, 0>>, B.e[i]))],
                         !.n = (ta * tb) * (ta * tb)])

\* numpy: np.kron(A, B)
npkron(A, B) ==
    Reduce([r |-> A.r * B.r,
            c |-> A.c * B.c,
            e |-> [k \in 1..(A.r * B.r * A.c * B.c) |->
                     LET i == (k - 1) \div (A.c * B.c)
                         j == (k - 1) % (A.c * B.c)
                     IN  CMul(At(A, i \div B.r, j \div B.c),
                              At(B, i % B.r, j % B.c))],
            n |-> A.n * B.n])

RECURSIVE DotFrom(_, _, _, _, _)
DotFrom(A, B, i, j, k) ==
    IF k = A.c THEN C0
    ELSE CAdd(CMul(At(A, i, k), At(B, k, j)), DotFrom(A, B, i, j, k + 1))

\* numpy: A @ B
MatMul(A, B) ==
    Reduce([r |-> A.r,
            c |-> B.c,
            e |-> [k \in 1..(A.r * B.c) |->
                     DotFrom(A, B, (k - 1) \div B.c, (k - 1) % B.c, 0)],
            n |-> A.n * B.n])

\* np.linalg.norm(A) = 1
Norm1(A) == SumAbs2(A.e) = A.n

IsZero(A) == SumAbs2(A.e) = 0

-----------------------------------------------------------------------------
(* Quantum functions *)

normalize(A) ==
    IF SumAbs2(A.e) # 0 THEN Reduce([A EXCEPT !.n = SumAbs2(A.e)]) ELSE A

RECURSIVE kronFrom(_, _)
kronFrom(result, ms) ==
    IF ms = <<>> THEN result ELSE kronFrom(npkron(result, ms[1]), Tail(ms))

kron(matrices) == kronFrom(matrices[1], Tail(matrices))

zero == [r |-> 2, c |-> 1, e |-> <<C1r, C0>>, n |-> 1]

one == [r |-> 2, c |-> 1, e |-> <<C0, C1r>>, n |-> 1]

X == [r |-> 2, c |-> 2, e |-> <<C0, C1r, C1r, C0>>, n |-> 1]

Z == [r |-> 2, c |-> 2, e |-> <<C1r, C0, C0, <<-1, 0>>>>, n |-> 1]

\* H without its factor 1/sqrt(2)
H_unscaled == [r |-> 2, c |-> 2, e |-> <<C1r, C1r, C1r, <<-1, 0>>>>, n |-> 1]

H == [r |-> 2, c |-> 2, e |-> <<C1r, C1r, C1r, <<-1, 0>>>>, n |-> 2]

I == [r |-> 2, c |-> 2, e |-> <<C1r, C0, C0, C1r>>, n |-> 1]

CNOT == [r |-> 4, c |-> 4,
         e |-> <<C1r, C0, C0, C0,
                 C0, C1r, C0, C0,
                 C0, C0, C0, C1r,
                 C0, C0, C1r, C0>>,
         n |-> 1]

\* CNOT placed on qubits 1 and 2 instead of 0 and 1
U_cnot_swapped == kron(<<I, CNOT>>)

\* The operators alice_ops builds
U_cnot == kron(<<CNOT, I>>)

U_h == kron(<<H, I, I>>)

\* The pair |01> + |10> in place of |00> + |11>
bell_odd == normalize(Add(kron(<<zero, one>>), kron(<<one, zero>>)))

\* The Bell pair initialize builds
bell == normalize(Add(kron(<<zero, zero>>), kron(<<one, one>>)))

outcomes == << <<0, 0>>, <<0, 1>>, <<1, 0>>, <<1, 1>> >>

\* mask reading the two trailing bits
mask_lowbits(ab) == {i \in 0..7 : <<(i \div 2) % 2, i % 2>> = ab}

\* The indices of the 8 amplitudes whose two leading bits are (a, b).
mask(ab) == {i \in 0..7 : <<(i \div 4) % 2, (i \div 2) % 2>> = ab}

RECURSIVE SumOver(_, _, _)
SumOver(e, S, i) ==
    IF i = 8 THEN 0
    ELSE (IF i \in S THEN CAbs2(e[i + 1]) ELSE 0) + SumOver(e, S, i + 1)

\* probs[mask].sum() for each outcome, in units of 1 / st.n
group_probs(st) == [idx \in 0..3 |-> SumOver(st.e, mask(outcomes[idx + 1]), 0)]

\* np.sum(outcome_probs), in the same units
probs_total(st) == SumOver(st.e, 0..7, 0)

\* outcome_probs after the division: numerator and denominator of each
\* probability; the denominator 0 is numpy's 0/0 = nan.
outcome_probs(st) == [idx \in 0..3 |-> <<group_probs(st)[idx], probs_total(st)>>]

\* np.random.choice(4, p) raises ValueError when p contains nan.
choice_raises(p) == \E idx \in 0..3 : p[idx][2] = 0

\* A sampler that can return an index of probability 0
choice_any(p) == {idx \in 0..3 : p[idx][2] # 0}

\* The indices np.random.choice(4, p) can return.
choice(p) == {idx \in 0..3 : p[idx][2] # 0 /\ p[idx][1] > 0}

\* new_state copied from state without zeroing the other amplitudes
collapse_no_zeroing(st, ab) == normalize(st)

\* new_state for a sampled outcome
collapse(st, ab) ==
    normalize([st EXCEPT !.e = [k \in 1..8 |->
                                  IF (k - 1) \in mask(ab) THEN st.e[k] ELSE C0]])

\* The set of (outcome, new_state) pairs measure_two_qubits can return.
measure_two_qubits(st) ==
    { [outcome |-> outcomes[idx + 1], new_state |-> collapse(st, outcomes[idx + 1])] :
        idx \in choice(outcome_probs(st)) }

-----------------------------------------------------------------------------
(* The text of the two entry widgets and Python's complex(text) *)

Digits == {"0", "1", "2", "3", "4", "5", "6", "7", "8", "9"}

DigitVal(ch) ==
    CASE ch = "0" -> 0 [] ch = "1" -> 1 [] ch = "2" -> 2 [] ch = "3" -> 3
      [] ch = "4" -> 4 [] ch = "5" -> 5 [] ch = "6" -> 6 [] ch = "7" -> 7
      [] ch = "8" -> 8 [] ch = "9" -> 9

\* complex(text) raising ValueError
ValueError == [err |-> TRUE, re |-> 0, im |-> 0, den |-> 1]

\* A decimal literal: digits with at most one point and at least one digit.
IsFloat(s) ==
    /\ \A i \in 1..Len(s) : s[i] \in Digits \cup {"."}
    /\ Cardinality({i \in 1..Len(s) : s[i] = "."}) <= 1
    /\ \E i \in 1..Len(s) : s[i] \in Digits

RECURSIVE Mantissa(_)
Mantissa(s) ==
    IF s = <<>> THEN 0
    ELSE LET front == SubSeq(s, 1, Len(s) - 1)
             ch == s[Len(s)]
         IN  IF ch = "." THEN Mantissa(front)
             ELSE 10 * Mantissa(front) + DigitVal(ch)

RECURSIVE Pow10(_)
Pow10(k) == IF k = 0 THEN 1 ELSE 10 * Pow10(k - 1)

\* Number of digits after the point.
FracLen(s) ==
    IF \E i \in 1..Len(s) : s[i] = "."
    THEN Len(s) - (CHOOSE i \in 1..Len(s) : s[i] = ".")
    ELSE 0

\* complex(text) for texts over digits, ".", "+", "-", "j" and other
\* characters: [sign] decimal [j], or [sign] j.  The value is
\* (re + im j) / den.
ParseComplex(text) ==
    LET signed == text # <<>> /\ text[1] \in {"+", "-"}
        sgn    == IF signed /\ text[1] = "-" THEN -1 ELSE 1
        t1     == IF signed THEN Tail(text) ELSE text
        imag   == t1 # <<>> /\ t1[Len(t1)] = "j"
        t2     == IF imag THEN SubSeq(t1, 1, Len(t1) - 1) ELSE t1
    IN  IF t2 = <<>>
        THEN IF imag THEN [err |-> FALSE, re |-> 0, im |-> sgn, den |-> 1] ELSE ValueError
        ELSE IF ~IsFloat(t2) THEN ValueError
        ELSE IF imag
             THEN [err |-> FALSE, re |-> 0, im |-> sgn * Mantissa(t2),
                   den |-> Pow10(FracLen(t2))]
             ELSE [err |-> FALSE, re |-> sgn * Mantissa(t2), im |-> 0,
                   den |-> Pow10(FracLen(t2))]

\* The texts typed into alpha_entry and beta_entry.
Texts ==
    { <<"0", ".", "6">>, <<"0", ".", "8">>, <<"0">>, <<"-", "1", "j">>,
      <<"1", ".", ".">> }

-----------------------------------------------------------------------------
(* Simulation steps *)

\* The stage after operation op took effect in stage ph.
Advance(ph, op) ==
    CASE ph = "Initialized" /\ op = "alice_ops" -> "AliceOpsApplied"
      [] ph = "AliceOpsApplied" /\ op = "measure" -> "Measured"
      [] ph = "Measured" /\ op = "bob_correction" -> "Corrected"
      [] OTHER -> "OutOfOrder"

Init ==
    /\ state = None
    /\ psi = None
    /\ alice_result = NoneResult
    /\ last = [op |-> "none", result |-> "none"]
    /\ done = {}
    /\ phase = "Uninitialized"
    /\ measures = 0
    /\ steps = 0

\* initialize dropping the session when the texts do not parse
initialize_clearing(alpha_text, beta_text) ==
    /\ steps < MaxSteps
    /\ steps' = steps + 1
    /\ measures' = 0
    /\ LET alpha == ParseComplex(alpha_text)
           beta == ParseComplex(beta_text)
       IN  IF alpha = ValueError \/ beta = ValueError
           THEN /\ last' = [op |-> "initialize", result |-> "showerror",
                            alpha |-> alpha_text, beta |-> beta_text]
                /\ state' = None
                /\ psi' = None
                /\ UNCHANGED <<alice_result, done, phase>>
           ELSE LET npsi == normalize(Add(Scale(alpha, zero), Scale(beta, one)))
                IN  /\ psi' = npsi
                    /\ state' = kron(<<npsi, bell>>)
                    /\ last' = [op |-> "initialize", result |-> "ok",
                                alpha |-> alpha_text, beta |-> beta_text]
                    /\ done' = {}
                    /\ phase' = "Initialized"
                    /\ UNCHANGED alice_result

initialize(alpha_text, beta_text) ==
    /\ steps < MaxSteps
    /\ steps' = steps + 1
    /\ measures' = 0
    /\ LET alpha == ParseComplex(alpha_text)
           beta == ParseComplex(beta_text)
       IN  IF alpha = ValueError \/ beta = ValueError
           THEN /\ last' = [op |-> "initialize", result |-> "showerror",
                            alpha |-> alpha_text, beta |-> beta_text]
                /\ UNCHANGED <<state, psi, alice_result, done, phase>>
           ELSE LET npsi == normalize(Add(Scale(alpha, zero), Scale(beta, one)))
                IN  /\ psi' = npsi
                    /\ state' = kron(<<npsi, bell>>)
                    /\ last' = [op |-> "initialize", result |-> "ok",
                                alpha |-> alpha_text, beta |-> beta_text]
                    /\ done' = {}
                    /\ phase' = "Initialized"
                    /\ UNCHANGED alice_result

\* alice_ops that starts a session from the entries' default texts instead
\* of returning when there is none
alice_ops_autoinit ==
    /\ steps < MaxSteps
    /\ steps' = steps + 1
    /\ measures' = 0
    /\ IF state = None
       THEN LET npsi == normalize(Add(Scale(ParseComplex(<<"0", ".", "6">>), zero),
                                      Scale(ParseComplex(<<"0", ".", "8">>), one)))
            IN  /\ psi' = npsi
                /\ state' = kron(<<npsi, bell>>)
                /\ last' = [op |-> "alice_ops", result |-> "showinfo"]
                /\ UNCHANGED <<alice_result, done, phase>>
       ELSE /\ state' = MatMul(U_h, MatMul(U_cnot, state))
            /\ last' = [op |-> "alice_ops", result |-> "ok"]
            /\ done' = done \cup {"alice_ops"}
            /\ phase' = Advance(phase, "alice_ops")
            /\ UNCHANGED <<psi, alice_result>>

alice_ops ==
    /\ steps < MaxSteps
    /\ steps' = steps + 1
    /\ measures' = 0
    /\ IF state = None
       THEN /\ last' = [op |-> "alice_ops", result |-> "showinfo"]
            /\ UNCHANGED <<state, psi, alice_result, done, phase>>
       ELSE /\ state' = MatMul(U_h, MatMul(U_cnot, state))
            /\ last' = [op |-> "alice_ops", result |-> "ok"]
            /\ done' = done \cup {"alice_ops"}
            /\ phase' = Advance(phase, "alice_ops")
            /\ UNCHANGED <<psi, alice_result>>

measure ==
    /\ steps < MaxSteps
    /\ steps' = steps + 1
    /\ IF state = None
       THEN /\ last' = [op |-> "measure", result |-> "showinfo"]
            /\ UNCHANGED <<state, psi, alice_result, done, phase, measures>>
       ELSE IF choice_raises(outcome_probs(state))
       THEN /\ last' = [op |-> "measure", result |-> "ValueError"]
            /\ UNCHANGED <<state, psi, alice_result, done, phase, measures>>
       ELSE \E res \in measure_two_qubits(state) :
                /\ alice_result' = res.outcome
                /\ state' = res.new_state
                /\ last' = [op |-> "measure", result |-> "ok"]
                /\ done' = done \cup {"measure"}
                /\ phase' = Advance(phase, "measure")
                /\ measures' = measures + 1
                /\ UNCHANGED psi

\* The table with X and Z exchanged
correction_swapped(ab) ==
    IF ab = <<0, 0>> THEN I
    ELSE IF ab = <<0, 1>> THEN Z
    ELSE IF ab = <<1, 0>> THEN X
    ELSE MatMul(Z, X)

\* The correction bob_correction selects for the bits ab
correction(ab) ==
    IF ab = <<0, 0>> THEN I
    ELSE IF ab = <<0, 1>> THEN X
    ELSE IF ab = <<1, 0>> THEN Z
    ELSE MatMul(Z, X)

\* bob_correction storing Bob's qubit in the global psi it declares
bob_correction_psi ==
    /\ steps < MaxSteps
    /\ steps' = steps + 1
    /\ measures' = measures
    /\ IF state = None \/ alice_result = NoneResult
       THEN /\ last' = [op |-> "bob_correction", result |-> "showinfo"]
            /\ UNCHANGED <<state, psi, alice_result, done, phase>>
       ELSE LET U_corr == kron(<<I, I, correction(alice_result)>>)
                nstate == MatMul(U_corr, state)
                bob_qubit == normalize([r |-> 2, c |-> 1,
                                        e |-> SubSeq(nstate.e, 7, 8),
                                        n |-> nstate.n])
            IN  /\ state' = nstate
                /\ psi' = bob_qubit
                /\ last' = [op |-> "bob_correction", result |-> "ok",
                            bob_qubit |-> bob_qubit]
                /\ done' = done \cup {"bob_correction"}
                /\ phase' = Advance(phase, "bob_correction")
                /\ UNCHANGED alice_result

bob_correction ==
    /\ steps < MaxSteps
    /\ steps' = steps + 1
    /\ measures' = measures
    /\ IF state = None \/ alice_result = NoneResult
       THEN /\ last' = [op |-> "bob_correction", result |-> "showinfo"]
            /\ UNCHANGED <<state, psi, alice_result, done, phase>>
       ELSE LET U_corr == kron(<<I, I, correction(alice_result)>>)
                nstate == MatMul(U_corr, state)
                bob_qubit == normalize([r |-> 2, c |-> 1,
                                        e |-> SubSeq(nstate.e, 7, 8),
                                        n |-> nstate.n])
            IN  /\ state' = nstate
                /\ last' = [op |-> "bob_correction", result |-> "ok",
                            bob_qubit |-> bob_qubit]
                /\ done' = done \cup {"bob_correction"}
                /\ phase' = Advance(phase, "bob_correction")
                /\ UNCHANGED <<psi, alice_result>>

Next ==
    \/ \E alpha_text \in Texts, beta_text \in Texts :
          initialize(alpha_text, beta_text)
    \/ alice_ops
    \/ measure
    \/ bob_correction

Spec == Init /\ [][Next]_vars

-----------------------------------------------------------------------------
(* Properties *)

Phases == {"alice_ops", "measure", "bob_correction"}

\* The texts of Texts that complex() rejects.
BadTexts == { <<"1", ".", ".">> }

RECURSIVE InnerFrom(_, _, _)
InnerFrom(a, b, i) ==
    IF i > Len(a) THEN C0
    ELSE CAdd(CMul(<<a[i][1], -a[i][2]>>, b[i]), InnerFrom(a, b, i + 1))

\* A = c * B for a complex c with |c| = 1: the same norm, and equality in
\* the Cauchy-Schwarz inequality.
EqUpToPhase(A, B) ==
    /\ SumAbs2(A.e) * B.n = SumAbs2(B.e) * A.n
    /\ CAbs2(InnerFrom(A.e, B.e, 1)) = SumAbs2(A.e) * SumAbs2(B.e)

\* C1: after the in-order run initialize, alice_ops, measure, bob_correction
\* with (alpha, beta) not both zero, the qubit bob_correction reports equals
\* psi up to a global phase, whatever the outcome of the measurement.
C1_Teleported ==
    (last.op = "bob_correction" /\ phase = "Corrected" /\ ~IsZero(psi))
        => EqUpToPhase(last.bob_qubit, psi)

\* C2: while no measure has completed since the last successful initialize,
\* bob_correction is rejected and changes neither state, psi nor
\* alice_result.
C2_BobRejectedBeforeMeasure ==
    [][("measure" \notin done /\ last'.op = "bob_correction")
          => (last'.result = "showinfo"
              /\ UNCHANGED <<state, psi, alice_result>>)]_vars

\* C3: measure invoked in the Initialized phase, before alice_ops, changes
\* neither the composite state nor the recorded bits.
C3_MeasureBeforeAliceIsNoOp ==
    [][(phase = "Initialized" /\ last'.op = "measure")
          => UNCHANGED <<state, alice_result>>]_vars

\* C4: initialize with a text that complex() rejects, for alpha, beta or
\* both, reports the error and leaves state, psi and alice_result as they
\* were.
C4_FailedInitializeFrame ==
    [][(last'.op = "initialize"
        /\ (last'.alpha \in BadTexts \/ last'.beta \in BadTexts))
          => (last'.result = "showerror"
              /\ UNCHANGED <<state, psi, alice_result>>)]_vars

\* A failed initialize on a session that had been measured.
C4_Witness ==
    /\ last.op = "initialize"
    /\ last.result = "showerror"
    /\ state # None
    /\ alice_result # NoneResult

\* C5: once measure has recorded bits in a session, no alice_ops, measure or
\* bob_correction changes them.
C5_ResultImmutable ==
    [][("measure" \in done /\ last'.op \in Phases)
          => alice_result' = alice_result]_vars

\* C6: an alice_ops, measure or bob_correction changes the composite state
\* only when it is the next phase of the linear order; a phase invoked again
\* or out of order leaves the composite state as it was.
C6_LinearPhases ==
    [][(last'.op \in Phases /\ state' # state) => phase' # "OutOfOrder"]_vars

\* C7: after a successful initialize, psi and the composite state have
\* norm 1.
C7_InitializedNorm ==
    (last.op = "initialize" /\ last.result = "ok")
        => (Norm1(psi) /\ Norm1(state))

\* C8: whenever a composite state exists, measure completes with an outcome
\* in {0,1} x {0,1} and leaves a composite state that is not all zero.
C8_MeasureTotal ==
    [][(state # None /\ last'.op = "measure")
          => (/\ last'.result = "ok"
              /\ alice_result' \in {<<0, 0>>, <<0, 1>>, <<1, 0>>, <<1, 1>>}
              /\ ~IsZero(state'))]_vars

\* C9: while there is no session, alice_ops, measure and bob_correction only
\* show a notice: state, psi and alice_result are and stay absent.
C9_UninitializedNoOp ==
    [][(state = None /\ last'.op \in Phases)
          => (/\ psi = None /\ alice_result = NoneResult
              /\ last'.result = "showinfo"
              /\ state' = None /\ psi' = None
              /\ alice_result' = NoneResult)]_vars

\* Three phases invoked in a row before any initialize.
C9_Witness ==
    /\ state = None
    /\ last.op = "bob_correction"
    /\ last.result = "showinfo"
    /\ steps >= 3

\* C10: alice_ops, measure and bob_correction take a composite state of
\* norm 1 to a composite state of norm 1.
C10_NormPreserved ==
    [][(last'.op \in Phases /\ state # None /\ Norm1(state))
          => Norm1(state')]_vars

\* A session of norm 1 in which all three phases have taken effect.
C10_Witness ==
    /\ done = Phases
    /\ last.op = "bob_correction"
    /\ last.result = "ok"
    /\ Norm1(state)
    /\ state # None

\* The index of the first of the two amplitudes kept for the bits ab.
Slot(ab) == 4 * ab[1] + 2 * ab[2]

\* Every amplitude of st outside the two slots of ab is zero.
OnlyIn(st, ab) ==
    \A i \in 0..7 : i \notin {Slot(ab), Slot(ab) + 1} => st.e[i + 1] = C0

\* The two amplitudes of st in the slots of ab, as a single-qubit array.
Pair(st, ab) ==
    [r |-> 2, c |-> 1, e |-> SubSeq(st.e, Slot(ab) + 1, Slot(ab) + 2), n |-> st.n]

\* The real and imaginary parts of the entries of e, in order.
Parts(e) == [i \in 1..(2 * Len(e)) |-> e[(i + 1) \div 2][2 - (i % 2)]]

\* u = c * v for one real c > 0
PosProportional(u, v) ==
    LET pu == Parts(u)
        pv == Parts(v)
    IN  /\ \A i \in 1..Len(pu) : pu[i] * pv[i] >= 0 /\ (pu[i] = 0 <=> pv[i] = 0)
        /\ \A i, j \in 1..Len(pu) : pu[i] * pv[j] = pu[j] * pv[i]

\* C11 as stated: after measure in the in-order run the only amplitudes that
\* can be non-zero are at indices 6 and 7, whatever the outcome.
C11_LastTwoSlots ==
    phase = "Measured" => \A i \in 0..5 : state.e[i + 1] = C0

\* C11 as amended: after measure in the in-order run with outcome (a, b) the
\* non-zero amplitudes are at indices 4a+2b and 4a+2b+1 only; these are the
\* last two slots for (1,1), and for any other outcome slots 6 and 7 are zero.
C11_OutcomeSlots ==
    phase = "Measured"
        => (/\ OnlyIn(state, alice_result)
            /\ ~IsZero(state)
            /\ (alice_result # <<1, 1>> => (state.e[7] = C0 /\ state.e[8] = C0)))

\* Measured with outcome (0,1): the amplitudes sit at indices 2 and 3.
C11_Witness ==
    /\ phase = "Measured"
    /\ alice_result = <<0, 1>>
    /\ (state.e[3] # C0 \/ state.e[4] # C0)

\* The spec's correction table.
CorrectionTable(ab) ==
    CASE ab = <<0, 0>> -> I
      [] ab = <<0, 1>> -> X
      [] ab = <<1, 0>> -> Z
      [] ab = <<1, 1>> -> MatMul(Z, X)

\* C12: in the in-order run bob_correction applies to qubit 2 only the
\* correction of the table (I, X, Z, Z.X for 00, 01, 10, 11), and afterwards
\* the amplitudes at 4a+2b and 4a+2b+1 are exactly psi and the others zero.
C12_CorrectionTable ==
    [][(phase = "Measured" /\ last'.op = "bob_correction")
          => (/\ last'.result = "ok"
              /\ state' = MatMul(kron(<<I, I, CorrectionTable(alice_result)>>), state)
              /\ Pair(state', alice_result) = psi
              /\ OnlyIn(state', alice_result))]_vars

\* Corrected after outcome (1,1), where X and then Z were applied.
C12_Witness ==
    /\ phase = "Corrected"
    /\ last.op = "bob_correction"
    /\ alice_result = <<1, 1>>

\* C13: measure on a non-zero composite state returns bits (a, b) that had
\* non-zero probability, zeroes every amplitude outside 4a+2b, 4a+2b+1 and
\* divides the two amplitudes there by one common positive factor.
C13_Collapse ==
    [][(state # None /\ ~IsZero(state) /\ last'.op = "measure")
          => (/\ last'.result = "ok"
              /\ OnlyIn(state', alice_result')
              /\ PosProportional(Pair(state', alice_result').e,
                                 Pair(state, alice_result').e)
              /\ SumAbs2(Pair(state, alice_result').e) > 0)]_vars

\* A measurement of a state that bob_correction had already acted on.
C13_Witness ==
    /\ last.op = "measure"
    /\ last.result = "ok"
    /\ "bob_correction" \in done

\* C14: after a successful initialize(alpha, beta), whatever came before, psi
\* is normalize(alpha|0> + beta|1>) and the composite state has psi[0]/sqrt(2)
\* at 000 and 011, psi[1]/sqrt(2) at 100 and 111, and zero elsewhere.
C14_InitializeReplaces ==
    (last.op = "initialize" /\ last.result = "ok")
        => LET alpha == ParseComplex(last.alpha)
               beta == ParseComplex(last.beta)
               ab == << <<alpha.re * beta.den, alpha.im * beta.den>>,
                        <<beta.re * alpha.den, beta.im * alpha.den>> >>
           IN  /\ psi.r = 2 /\ psi.c = 1
               /\ IF SumAbs2(ab) = 0 THEN IsZero(psi)
                  ELSE Norm1(psi) /\ PosProportional(psi.e, ab)
               /\ state = Reduce([r |-> 8, c |-> 1,
                                  e |-> <<psi.e[1], C0, C0, psi.e[1],
                                          psi.e[2], C0, C0, psi.e[2]>>,
                                  n |-> 2 * psi.n])

\* A re-initialization of a session that had been measured.
C14_Witness ==
    /\ last.op = "initialize"
    /\ last.result = "ok"
    /\ alice_result # NoneResult
    /\ ~IsZero(psi)

\* C15: after initialize with (alpha, beta) not both zero and exactly one
\* alice_ops, each of the four outcomes can be sampled and has probability
\* 1/4, whatever alpha and beta are.
C15_UniformOutcomes ==
    (phase = "AliceOpsApplied" /\ ~IsZero(psi))
        => (/\ choice(outcome_probs(state)) = 0..3
            /\ \A idx \in 0..3 :
                  4 * SumAbs2(Pair(state, outcomes[idx + 1]).e) = SumAbs2(state.e))

\* Alice's operations applied to psi = (0.6, 0.8).
C15_Witness ==
    /\ phase = "AliceOpsApplied"
    /\ psi.n = 25
    /\ last.op = "alice_ops"

\* C16: a measure invoked when only measure and bob_correction calls were
\* made since the previous completed measure records the same bits and
\* leaves the composite state unchanged.
C16_Repeatable ==
    [][(measures >= 1 /\ last'.op = "measure")
          => (/\ last'.result = "ok"
              /\ alice_result' = alice_result
              /\ state' = state)]_vars

\* A measure repeated after bob_correction applied X for the bits (0,1).
C16_Witness ==
    /\ measures = 2
    /\ last.op = "measure"
    /\ done = Phases
    /\ alice_result = <<0, 1>>

\* C17: psi changes only in a successful initialize.
C17_PsiFrame ==
    [][psi' # psi => (last'.op = "initialize" /\ last'.result = "ok")]_vars

\* A failed initialize after all three phases of a session took effect.
C17_Witness ==
    /\ psi # None
    /\ done = Phases
    /\ last.op = "initialize"
    /\ last.result = "showerror"

====
